---- MODULE Spec2Model ----
(***************************************************************************)
(* A model of the PNG reader in src/src/main.rs: read_png, read_chunks,    *)
(* decompress_image and the byte-cursor readers read_u8/u16/u32/bytes.     *)
(* Byte sequences are sequences of integers 0..255; a cursor (&mut &[u8])  *)
(* is the sequence of bytes that remain.                                   *)
(***************************************************************************)
EXTENDS Integers, Sequences, FiniteSets, TLC

VARIABLES
    input,        \* read_png's argument `file: Vec<u8>`
    pc,           \* position in read_png / read_chunks / decompress_image
    file,         \* read_chunks' cursor `mut file: &[u8]`
    chunks,       \* read_chunks' `chunks: Vec<PNGChunk>`
    parsed,       \* read_chunks' return value: "pending", "Some", "None"
    idx,          \* position of the `for chunk in &chunks[1..]` loop (1-based)
    image_width,  \* read_png's `image_width`
    image_height, \* read_png's `image_height`
    image_data,   \* read_png's `image_data: Vec<u8>`, the compressed stream
    inflate_cur,  \* decompress_image's cursor `mut image_data: &[u8]`
    final_block,  \* decompress_image's `final_block`
    blocks,       \* history: what each block-loop iteration read
    inflated,     \* decompress_image's return value: "pending", "Some", "None"
    result,       \* read_png's outcome: "pending", "Some", "None", "panic"
    orig,         \* per decode: the buffer its cursor started on
    cur,          \* per decode: its cursor
    got,          \* per decode: the bytes its reads have returned so far
    ret,          \* per decode: its last call and what it returned
    writes,       \* history: <<location, decode>> for every write made
    BITS_READ     \* the `static mut BITS_READ`

vars == <<input, pc, file, chunks, parsed, idx, image_width, image_height, image_data,
          inflate_cur, final_block, blocks, inflated, result,
          orig, cur, got, ret, writes, BITS_READ>>

pngVars == <<input, file, chunks, parsed, idx, image_width, image_height, image_data, result>>
inflateVars == <<inflate_cur, final_block, blocks, inflated>>
cursorVars == <<orig, cur, got, ret, writes, BITS_READ>>

----------------------------------------------------------------------------
(* Bounds of the model. *)

\* longest exhaustively enumerated block body after the two zlib header bytes
MaxBody == 3
\* most blocks in a structured compressed stream
MaxBlocks == 2
\* most bytes cut from the end of a structured compressed stream
MaxStreamCut == 2
\* most chunks in a chunk sequence drawn from CoreChunks
MaxChunks == 4
\* most chunks in a chunk sequence that is then cut short
MaxCutChunks == 1
\* most bytes cut from the end of such a sequence
MaxCut == 13
\* most blocks in the image data of a whole file
MaxPngBlocks == 2
\* longest buffer a decode's cursor starts on, in the cursor-level model
MaxBuf == 5
\* largest byte count asked of read_bytes there
MaxRead == 3

----------------------------------------------------------------------------
(* Sequence helpers. *)

Take(s, n) == SubSeq(s, 1, n)
Drop(s, n) == SubSeq(s, n + 1, Len(s))

RECURSIVE Concat(_)
Concat(ss) == IF ss = <<>> THEN <<>> ELSE Head(ss) \o Concat(Tail(ss))

SeqsUpTo(S, n) == UNION {[1..k -> S] : k \in 0..n}

----------------------------------------------------------------------------
(* The cursor readers, main.rs 216-261.  Each returns a record             *)
(* [ok, val, rest]: ok is Some/None, val the value, rest the cursor after. *)

\* Faulty variant: the length test off by one (`<=` for `<`)
read_bytes_strict(f, bytes) ==
    IF Len(f) <= bytes
    THEN [ok |-> FALSE, val |-> <<>>, rest |-> f]
    ELSE [ok |-> TRUE, val |-> Take(f, bytes), rest |-> Drop(f, bytes)]

read_bytes(f, bytes) ==
    IF Len(f) < bytes
    THEN [ok |-> FALSE, val |-> <<>>, rest |-> f]
    ELSE [ok |-> TRUE, val |-> Take(f, bytes), rest |-> Drop(f, bytes)]

read_u8(f) ==
    LET r == read_bytes(f, 1)
    IN  IF r.ok THEN [ok |-> TRUE, val |-> r.val[1], rest |-> r.rest]
        ELSE [ok |-> FALSE, val |-> 0, rest |-> f]

\* u16::from_be_bytes
read_u16(f) ==
    LET r == read_bytes(f, 2)
    IN  IF r.ok THEN [ok |-> TRUE, val |-> r.val[1] * 256 + r.val[2], rest |-> r.rest]
        ELSE [ok |-> FALSE, val |-> 0, rest |-> f]

\* u32::from_be_bytes
read_u32(f) ==
    LET r == read_bytes(f, 4)
    IN  IF r.ok
        THEN [ok |-> TRUE,
              val |-> ((r.val[1] * 256 + r.val[2]) * 256 + r.val[3]) * 256 + r.val[4],
              rest |-> r.rest]
        ELSE [ok |-> FALSE, val |-> 0, rest |-> f]

----------------------------------------------------------------------------
(* decompress_image, main.rs 168-214. *)

\* Faulty variant: the preset-dictionary flag taken from bit 6, `flg >> 6`
zlib_header_bit6(data) ==
    LET c == read_u8(data)
        g == read_u8(c.rest)
    IN  IF ~c.ok THEN [ok |-> FALSE, rest |-> data]
        ELSE IF ~g.ok THEN [ok |-> FALSE, rest |-> c.rest]
        ELSE IF c.val % 16 # 8 \/ (g.val \div 64) % 2 # 0
        THEN [ok |-> FALSE, rest |-> g.rest]
        ELSE [ok |-> TRUE, rest |-> g.rest]

\* The two header bytes and the test on them, lines 169-184.
\* [ok, rest]: ok = FALSE is `return None`.
zlib_header(data) ==
    LET c == read_u8(data)
        g == read_u8(c.rest)
        cm == c.val % 16
        fdict == (g.val \div 32) % 2
    IN  IF ~c.ok THEN [ok |-> FALSE, rest |-> data]
        ELSE IF ~g.ok THEN [ok |-> FALSE, rest |-> c.rest]
        ELSE IF cm # 8 \/ fdict # 0 THEN [ok |-> FALSE, rest |-> g.rest]
        ELSE [ok |-> TRUE, rest |-> g.rest]

\* Faulty variant: a stored block is read through a copy of the cursor, which stays
\* where it was
block_iter_stuck(data) ==
    LET h == read_u8(data)
        l == read_u16(h.rest)
        n == read_u16(l.rest)
    IN  IF h.ok /\ (h.val \div 2) % 4 = 0 /\ l.ok /\ n.ok
        THEN [out |-> "next", read |-> TRUE, bfinal |-> h.val % 2, btype |-> 0,
              len |-> l.val, nlen |-> n.val, avail |-> Len(n.rest),
              stored |-> TRUE, rest |-> data]
        ELSE [out |-> "none", read |-> h.ok, bfinal |-> h.val % 2,
              btype |-> (h.val \div 2) % 4, len |-> 0, nlen |-> 0, avail |-> 0,
              stored |-> FALSE, rest |-> h.rest]

\* Faulty variant: the `_` arm breaks out of the loop as the arms 1 and 2 do.
block_iter_reserved_break(data) ==
    LET h == read_u8(data)
        bfinal == h.val % 2
        btype == (h.val \div 2) % 4
        l == read_u16(h.rest)
        n == read_u16(l.rest)
        d == read_bytes(n.rest, l.val)
        none == [out |-> "none", read |-> h.ok, bfinal |-> bfinal, btype |-> btype,
                 len |-> 0, nlen |-> 0, avail |-> 0, stored |-> FALSE, rest |-> h.rest]
    IN  IF ~h.ok THEN none
        ELSE IF btype = 0
        THEN IF ~l.ok THEN [none EXCEPT !.rest = h.rest]
             ELSE IF ~n.ok THEN [none EXCEPT !.rest = l.rest]
             ELSE [out |-> "next", read |-> TRUE, bfinal |-> bfinal, btype |-> btype,
                   len |-> l.val, nlen |-> n.val, avail |-> Len(n.rest),
                   stored |-> TRUE, rest |-> d.rest]
        ELSE [none EXCEPT !.out = "break"]

\* One iteration of `while !final_block`, lines 188-210.  out is what the
\* iteration does: "next" (fall to the loop test), "break", or "none" (return
\* None); read says whether the block header byte was read; the other fields
\* are the iteration's locals and the cursor after it.
block_iter(data) ==
    LET h == read_u8(data)
        bfinal == h.val % 2
        btype == (h.val \div 2) % 4
        l == read_u16(h.rest)
        n == read_u16(l.rest)
        d == read_bytes(n.rest, l.val)
        none == [out |-> "none", read |-> h.ok, bfinal |-> bfinal, btype |-> btype,
                 len |-> 0, nlen |-> 0, avail |-> 0, stored |-> FALSE, rest |-> h.rest]
    IN  IF ~h.ok THEN none
        ELSE IF btype = 0
        THEN IF ~l.ok THEN [none EXCEPT !.rest = h.rest]
             ELSE IF ~n.ok THEN [none EXCEPT !.rest = l.rest]
             ELSE [out |-> "next", read |-> TRUE, bfinal |-> bfinal, btype |-> btype,
                   len |-> l.val, nlen |-> n.val, avail |-> Len(n.rest),
                   stored |-> TRUE, rest |-> d.rest]
        ELSE IF btype \in {1, 2}
        THEN [none EXCEPT !.out = "break"]
        ELSE none

\* The log entry of an iteration that read a block header.
BlockEntry(b) ==
    [bfinal |-> b.bfinal, btype |-> b.btype, stored |-> b.stored,
     len |-> b.len, nlen |-> b.nlen, avail |-> b.avail, out |-> b.out]

\* lines 169-184
ZlibHeader ==
    /\ pc = "zlib"
    /\ LET z == zlib_header(inflate_cur)
       IN  /\ inflate_cur' = z.rest
           /\ IF z.ok
              THEN /\ pc' = "block"
                   /\ inflated' = inflated
              ELSE /\ pc' = "ret"
                   /\ inflated' = "None"
    /\ final_block' = FALSE
    /\ UNCHANGED <<blocks, pngVars, cursorVars>>

\* lines 187-211: the loop test holds and the body runs once
BlockIter ==
    /\ pc = "block"
    /\ ~final_block
    /\ LET b == block_iter(inflate_cur)
       IN  /\ inflate_cur' = b.rest
           /\ final_block' = (final_block \/ (b.read /\ b.bfinal = 1))
           /\ blocks' = IF b.read THEN Append(blocks, BlockEntry(b)) ELSE blocks
           /\ IF b.out = "next"
              THEN /\ pc' = "block"
                   /\ inflated' = inflated
              ELSE /\ pc' = "ret"
                   /\ inflated' = IF b.out = "break" THEN "Some" ELSE "None"
    /\ UNCHANGED <<pngVars, cursorVars>>

\* lines 187, 213: the loop test fails, `Some(())`
BlockLoopExit ==
    /\ pc = "block"
    /\ final_block
    /\ pc' = "ret"
    /\ inflated' = "Some"
    /\ UNCHANGED <<inflate_cur, final_block, blocks, pngVars, cursorVars>>

----------------------------------------------------------------------------
(* read_chunks, main.rs 119-166. *)

IHDR_TYPE == <<73, 72, 68, 82>>
IDAT_TYPE == <<73, 68, 65, 84>>
PLTE_TYPE == <<80, 76, 84, 69>>
IEND_TYPE == <<73, 69, 78, 68>>

IsCont(b) == b \in 128..191

\* str::from_utf8(chunk_type).is_ok(), line 126: whether the bytes are
\* well-formed UTF-8 (shortest form, no surrogates, at most U+10FFFF).
RECURSIVE from_utf8_ok(_)
from_utf8_ok(s) ==
    IF s = <<>> THEN TRUE
    ELSE LET b == s[1] IN
         IF b < 128 THEN from_utf8_ok(Tail(s))
         ELSE IF b \in 194..223
         THEN Len(s) >= 2 /\ IsCont(s[2]) /\ from_utf8_ok(Drop(s, 2))
         ELSE IF b \in 224..239
         THEN /\ Len(s) >= 3
              /\ IsCont(s[2]) /\ IsCont(s[3])
              /\ (b = 224 => s[2] >= 160)
              /\ (b = 237 => s[2] <= 159)
              /\ from_utf8_ok(Drop(s, 3))
         ELSE IF b \in 240..244
         THEN /\ Len(s) >= 4
              /\ IsCont(s[2]) /\ IsCont(s[3]) /\ IsCont(s[4])
              /\ (b = 240 => s[2] >= 144)
              /\ (b = 244 => s[2] <= 143)
              /\ from_utf8_ok(Drop(s, 4))
         ELSE FALSE

\* A PNGChunk value, lines 27-41; the fields a variant lacks are zero/empty.
Chunk(kind, data) ==
    [kind |-> kind, width |-> 0, height |-> 0, bit_depth |-> 0, color_type |-> 0,
     compression_method |-> 0, filter_method |-> 0, interlace_method |-> 0,
     data |-> data]

\* The "IHDR" arm, lines 133-150: [ok, chunk]
parse_ihdr(chunk_data) ==
    LET w == read_u32(chunk_data)
        h == read_u32(w.rest)
        bd == read_u8(h.rest)
        ct == read_u8(bd.rest)
        cm == read_u8(ct.rest)
        fm == read_u8(cm.rest)
        im == read_u8(fm.rest)
    IN  IF w.ok /\ h.ok /\ bd.ok /\ ct.ok /\ cm.ok /\ fm.ok /\ im.ok
        THEN [ok |-> TRUE,
              chunk |-> [kind |-> "IHDR", width |-> w.val, height |-> h.val,
                         bit_depth |-> bd.val, color_type |-> ct.val,
                         compression_method |-> cm.val, filter_method |-> fm.val,
                         interlace_method |-> im.val, data |-> <<>>]]
        ELSE [ok |-> FALSE, chunk |-> Chunk("none", <<>>)]

\* Faulty variant: the wrong bit of the first type byte, `1 << 6`
ancillary_bit_6(chunk_type) == (chunk_type[1] \div 64) % 2 = 1

\* The test of line 154: chunk_type[0] & (1 << 5) == (1 << 5)
ancillary_bit(chunk_type) == (chunk_type[1] \div 32) % 2 = 1

\* The `match chunk_type_str`, lines 132-158: [ok, chunk]
classify(chunk_type, chunk_data) ==
    IF chunk_type = IHDR_TYPE THEN parse_ihdr(chunk_data)
    ELSE IF chunk_type = IDAT_TYPE THEN [ok |-> TRUE, chunk |-> Chunk("IDAT", chunk_data)]
    ELSE IF chunk_type = PLTE_TYPE THEN [ok |-> TRUE, chunk |-> Chunk("PLTE", <<>>)]
    ELSE IF chunk_type = IEND_TYPE THEN [ok |-> TRUE, chunk |-> Chunk("IEND", <<>>)]
    ELSE IF ancillary_bit(chunk_type) THEN [ok |-> TRUE, chunk |-> Chunk("Ancillary", <<>>)]
    ELSE [ok |-> FALSE, chunk |-> Chunk("none", <<>>)]

\* The trailer read of line 162: its result is dropped, the cursor is
\* whatever read_u32 left.
skip_trailer(f) == read_u32(f).rest

\* One iteration of `while file.len() != 0`, lines 124-162:
\* [ok, chunk, rest]; ok = FALSE is `return None`.
chunk_iter(f) ==
    LET l == read_u32(f)
        t == read_bytes(l.rest, 4)
        d == read_bytes(t.rest, l.val)
        c == classify(t.val, d.val)
        fail(rest) == [ok |-> FALSE, chunk |-> Chunk("none", <<>>), rest |-> rest]
    IN  IF ~l.ok THEN fail(f)
        ELSE IF ~t.ok THEN fail(l.rest)
        ELSE IF ~from_utf8_ok(t.val) THEN fail(t.rest)
        ELSE IF ~d.ok THEN fail(t.rest)
        ELSE IF ~c.ok THEN fail(d.rest)
        ELSE [ok |-> TRUE, chunk |-> c.chunk, rest |-> skip_trailer(d.rest)]

\* lines 122-163: the loop test holds and the body runs once
ReadChunkIter ==
    /\ pc = "chunks"
    /\ Len(file) # 0
    /\ LET r == chunk_iter(file)
       IN  /\ file' = r.rest
           /\ IF r.ok
              THEN /\ chunks' = Append(chunks, r.chunk)
                   /\ UNCHANGED <<pc, parsed, result>>
              ELSE /\ pc' = "done"
                   /\ parsed' = "None"
                   /\ result' = "None"
                   /\ UNCHANGED chunks
    /\ UNCHANGED <<input, idx, image_width, image_height, image_data,
                   inflateVars, cursorVars>>

\* lines 122, 165 and 50: the loop test fails, `Some(chunks)` goes to read_png
ReadChunksReturn ==
    /\ pc = "chunks"
    /\ Len(file) = 0
    /\ pc' = "header"
    /\ parsed' = "Some"
    /\ UNCHANGED <<input, file, chunks, idx, image_width, image_height, image_data,
                   result, inflateVars, cursorVars>>

----------------------------------------------------------------------------
(* read_png, main.rs 43-117. *)

png_signature == <<137, 80, 78, 71, 13, 10, 26, 10>>

\* Faulty variant: the loop bound one short, `0..7`
sig_stop_7(f) ==
    LET bad == {i \in 1..7 : i > Len(f) \/ f[i] # png_signature[i]}
    IN  IF bad = {} THEN 0 ELSE CHOOSE i \in bad : \A j \in bad : i <= j

\* The loop of lines 45-49: the first i at which it stops, 0 if it runs through.
\* file[i] panics when i is past the end, before the comparison is made.
sig_stop(f) ==
    LET bad == {i \in 1..8 : i > Len(f) \/ f[i] # png_signature[i]}
    IN  IF bad = {} THEN 0 ELSE CHOOSE i \in bad : \A j \in bad : i <= j

\* lines 44-50
SigCheck ==
    /\ pc = "sig"
    /\ LET i == sig_stop(input)
       IN  IF i = 0
           THEN /\ file' = Drop(input, 8)
                /\ pc' = "chunks"
                /\ UNCHANGED result
           ELSE /\ pc' = "done"
                /\ result' = IF i > Len(input) THEN "panic" ELSE "None"
                /\ UNCHANGED file
    /\ UNCHANGED <<input, chunks, parsed, idx, image_width, image_height, image_data,
                   inflateVars, cursorVars>>

\* Faulty variant: the interlace test left out
supported_no_interlace(c) ==
    /\ c.bit_depth = 8
    /\ c.color_type = 2
    /\ c.compression_method = 0
    /\ c.filter_method = 0

\* The tests of lines 70-94 on the header fields.
supported(c) ==
    /\ c.bit_depth = 8
    /\ c.color_type = 2
    /\ c.compression_method = 0
    /\ c.filter_method = 0
    /\ c.interlace_method = 0

\* Faulty variant: the catch-all arm `_ => return None` left out
header_check_any(cs) ==
    IF Len(cs) = 0 THEN "panic"
    ELSE IF cs[1].kind = "IHDR" /\ ~supported(cs[1]) THEN "none"
    ELSE "ok"

\* The `match chunks[0]`, lines 56-100: "panic" when there is no chunks[0],
\* "none" for `return None`, "ok" to go on.
header_check(cs) ==
    IF Len(cs) = 0 THEN "panic"
    ELSE IF cs[1].kind # "IHDR" THEN "none"
    ELSE IF ~supported(cs[1]) THEN "none"
    ELSE "ok"

\* lines 56-103
HeaderCheck ==
    /\ pc = "header"
    /\ LET h == header_check(chunks)
       IN  /\ IF h # "panic" /\ chunks[1].kind = "IHDR"
              THEN /\ image_width' = chunks[1].width
                   /\ image_height' = chunks[1].height
              ELSE UNCHANGED <<image_width, image_height>>
           /\ IF h = "ok"
              THEN /\ pc' = "collect"
                   /\ UNCHANGED result
              ELSE /\ pc' = "done"
                   /\ result' = IF h = "panic" THEN "panic" ELSE "None"
    /\ idx' = 2
    /\ image_data' = <<>>
    /\ UNCHANGED <<input, file, chunks, parsed, inflateVars, cursorVars>>

\* Faulty variant: the PLTE arm left out, so a palette falls to `_ => ()`
collect_arm_no_plte(c) == IF c.kind = "IHDR" THEN "none" ELSE "ok"

\* The `match chunk` of lines 105-112: "none" for `return None`, "ok" to go on.
collect_arm(c) == IF c.kind \in {"IHDR", "PLTE"} THEN "none" ELSE "ok"

\* line 108: what the chunk adds to image_data
collect_data(c) == IF c.kind = "IDAT" THEN c.data ELSE <<>>

\* Faulty variant: the chunk's bytes put in front of what was collected
extend_front(acc, c) == collect_data(c) \o acc

\* line 108: image_data.extend_from_slice(chunk_data), for an IDAT chunk
extend(acc, c) == acc \o collect_data(c)

\* lines 104-113: one iteration of `for chunk in &chunks[1..]`
CollectIter ==
    /\ pc = "collect"
    /\ idx <= Len(chunks)
    /\ IF collect_arm(chunks[idx]) = "ok"
       THEN /\ image_data' = extend(image_data, chunks[idx])
            /\ idx' = idx + 1
            /\ UNCHANGED <<pc, result>>
       ELSE /\ pc' = "done"
            /\ result' = "None"
            /\ UNCHANGED <<image_data, idx>>
    /\ UNCHANGED <<input, file, chunks, parsed, image_width, image_height,
                   inflateVars, cursorVars>>

\* lines 104, 114: the loop is over, decompress_image(&image_data) is called
CollectDone ==
    /\ pc = "collect"
    /\ idx > Len(chunks)
    /\ pc' = "zlib"
    /\ inflate_cur' = image_data
    /\ UNCHANGED <<final_block, blocks, inflated, pngVars, cursorVars>>

\* The struct PNG, lines 20-24, as built on line 116.
PNG(width, height) == [width |-> width, height |-> height]

\* What read_png has returned: a PNG value inside Some, else no value.
returned == IF result = "Some" THEN PNG(image_width, image_height) ELSE <<>>

\* lines 114-116: the `?` on decompress_image's value, then Some(PNG {..})
ReadPngReturn ==
    /\ pc = "ret"
    /\ pc' = "done"
    /\ result' = IF inflated = "Some" THEN "Some" ELSE "None"
    /\ UNCHANGED <<input, file, chunks, parsed, idx, image_width, image_height, image_data,
                   inflateVars, cursorVars>>

----------------------------------------------------------------------------
(* The three functions as values of their argument, each loop run to its   *)
(* end with the same per-iteration operators the actions use.              *)

\* lines 187-213, from a cursor and a value of final_block
RECURSIVE block_loop(_, _)
block_loop(data, final) ==
    IF final THEN "Some"
    ELSE LET b == block_iter(data)
         IN  IF b.out = "next" THEN block_loop(b.rest, b.bfinal = 1)
             ELSE IF b.out = "break" THEN "Some"
             ELSE "None"

\* lines 168-214
decompress_image(data) ==
    LET z == zlib_header(data)
    IN  IF z.ok THEN block_loop(z.rest, FALSE) ELSE "None"

\* lines 122-165, from a cursor and the chunks pushed so far
RECURSIVE chunk_loop(_, _)
chunk_loop(f, acc) ==
    IF Len(f) = 0 THEN [ok |-> TRUE, chunks |-> acc]
    ELSE LET r == chunk_iter(f)
         IN  IF r.ok THEN chunk_loop(r.rest, Append(acc, r.chunk))
             ELSE [ok |-> FALSE, chunks |-> acc]

\* lines 119-166
read_chunks(f) == chunk_loop(f, <<>>)

\* lines 103-113 from position i: [ok, data]
RECURSIVE collect_loop(_, _, _)
collect_loop(cs, i, acc) ==
    IF i > Len(cs) THEN [ok |-> TRUE, data |-> acc]
    ELSE IF collect_arm(cs[i]) = "ok"
    THEN collect_loop(cs, i + 1, extend(acc, cs[i]))
    ELSE [ok |-> FALSE, data |-> acc]

NoImage(r) == [result |-> r, width |-> 0, height |-> 0, image_data |-> <<>>]

\* lines 43-117: the outcome, the PNG value's fields, and the stream that
\* went to decompress_image
read_png(f) ==
    IF sig_stop(f) # 0
    THEN NoImage(IF sig_stop(f) > Len(f) THEN "panic" ELSE "None")
    ELSE LET r == read_chunks(Drop(f, 8))
             h == header_check(r.chunks)
             c == collect_loop(r.chunks, 2, <<>>)
         IN  IF ~r.ok THEN NoImage("None")
             ELSE IF h = "panic" THEN NoImage("panic")
             ELSE IF h = "none" THEN NoImage("None")
             ELSE IF ~c.ok THEN NoImage("None")
             ELSE IF decompress_image(c.data) # "Some"
             THEN [NoImage("None") EXCEPT !.image_data = c.data]
             ELSE [result |-> "Some", width |-> r.chunks[1].width,
                   height |-> r.chunks[1].height, image_data |-> c.data]

----------------------------------------------------------------------------
(* decompress_image alone, on bounded compressed streams. *)

CmfBytes == {8, 120, 7}
FlgBytes == {0, 1, 32, 192, 224}
BodyBytes == {0, 1, 2, 5, 6, 254, 255}
LenFields == {<<0, 0>>, <<0, 1>>, <<1, 0>>, <<5, 5>>}

Complement(two) == <<255 - two[1], 255 - two[2]>>

\* Encodings of one block: a header byte alone, or a stored block's header,
\* LEN, NLEN (true or forged) and some data bytes.
BlockEncodings ==
    {<<h>> : h \in 2..7}
    \cup UNION {{<<h>> \o l \o n \o d :
                    h \in {0, 1}, n \in {Complement(l), <<0, 0>>}, d \in {<<>>, <<7>>}} :
                l \in LenFields}

StreamInputs ==
    \* too short for the header, and every header with a fixed body
    {<<>>} \cup {<<c>> : c \in CmfBytes}
    \cup {<<c, g>> \o b : c \in CmfBytes, g \in FlgBytes, b \in {<<>>, <<1, 0, 0, 255, 255>>}}
    \* a good header and every short body
    \cup {<<120, 1>> \o b : b \in SeqsUpTo(BodyBytes, MaxBody)}
    \* a good header and block sequences, cut short at the end
    \cup {Take(<<120, 1>> \o Concat(bs), Len(<<120, 1>> \o Concat(bs)) - k) :
            bs \in SeqsUpTo(BlockEncodings, MaxBlocks), k \in 0..MaxStreamCut}

InitIdle ==
    /\ input = <<>> /\ file = <<>> /\ chunks = <<>> /\ parsed = "pending" /\ idx = 0
    /\ image_width = 0 /\ image_height = 0 /\ result = "pending"

InitCursorIdle ==
    /\ orig = <<>> /\ cur = <<>> /\ got = <<>> /\ ret = <<>>
    /\ writes = {} /\ BITS_READ = 0

InitInflate ==
    /\ pc = "zlib"
    /\ image_data \in StreamInputs
    /\ inflate_cur = image_data
    /\ final_block = FALSE
    /\ blocks = <<>>
    /\ inflated = "pending"
    /\ InitIdle
    /\ InitCursorIdle

NextInflate ==
    \/ ZlibHeader
    \/ BlockIter
    \/ BlockLoopExit

SpecInflate == InitInflate /\ [][NextInflate]_vars

----------------------------------------------------------------------------
(* read_png on bounded inputs. *)

BE32(n) == <<(n \div 16777216) % 256, (n \div 65536) % 256, (n \div 256) % 256, n % 256>>

\* The wire layout of a chunk: length, type, data, 4 trailer bytes.
EncodeChunk(type, data) == BE32(Len(data)) \o type \o data \o <<1, 2, 3, 4>>

IhdrPayload(w, h, bd, ct, cm, fm, im) == BE32(w) \o BE32(h) \o <<bd, ct, cm, fm, im>>

GoodIhdr == EncodeChunk(IHDR_TYPE, IhdrPayload(1, 1, 8, 2, 0, 0, 0))
\* a zlib header and one final stored block, LEN = 0
GoodStream == <<120, 1, 1, 0, 0, 255, 255>>
GoodIdat == EncodeChunk(IDAT_TYPE, GoodStream)
Iend == EncodeChunk(IEND_TYPE, <<>>)

CoreChunks ==
    {GoodIhdr,
     EncodeChunk(PLTE_TYPE, <<9, 9, 9>>),
     GoodIdat,
     EncodeChunk(IDAT_TYPE, Take(GoodStream, 2)),
     EncodeChunk(IDAT_TYPE, Drop(GoodStream, 2)),
     Iend,
     EncodeChunk(<<116, 69, 88, 116>>, <<65>>),
     EncodeChunk(<<65, 66, 67, 68>>, <<>>)}

\* Blocks for the image data of a whole file: stored blocks, non-final and
\* final, with and without data, with a forged NLEN, with a LEN past the end;
\* and blocks of the other three types.
PngBlocks ==
    {<<0, 0, 0, 255, 255>>, <<1, 0, 0, 255, 255>>, <<0, 0, 1, 255, 254, 9>>,
     <<1, 0, 0, 0, 0>>, <<1, 5, 5, 250, 250>>, <<2>>, <<3>>, <<6>>}

PngStreams == {<<120, 1>> \o Concat(bs) : bs \in SeqsUpTo(PngBlocks, MaxPngBlocks)}

TypeBytes == {65, 97, 195, 169, 226, 130, 172, 255}

IhdrPayloads ==
    {IhdrPayload(w, 2, bd, ct, cm, fm, im) :
        w \in {1, 3}, bd \in {8, 16}, ct \in {2, 6}, cm \in {0, 1},
        fm \in {0, 1}, im \in {0, 1}}
    \cup {Take(IhdrPayload(1, 1, 8, 2, 0, 0, 0), k) : k \in 0..12}
    \cup {IhdrPayload(1, 1, 8, 2, 0, 0, 0) \o <<0>>}

\* One pixel as a DEFLATE writer stores it: a final stored block, LEN = 4
\* low byte first, NLEN, then the filter byte 0 and R, G, B.
OnePixelStream == <<120, 1, 1, 4, 0, 251, 255, 0, 10, 20, 30>>

CutEnd(s, k) == Take(s, IF Len(s) > k THEN Len(s) - k ELSE 0)

PngInputs ==
    \* short inputs, and the signature with one byte changed
    {Take(png_signature, k) : k \in 0..8}
    \cup {<<0>>, <<137, 0>>}
    \cup {[png_signature EXCEPT ![i] = 0] \o GoodIhdr \o GoodIdat \o Iend : i \in 1..8}
    \* every sequence of core chunks
    \cup {png_signature \o Concat(cs) : cs \in SeqsUpTo(CoreChunks, MaxChunks)}
    \* a header and some chunks, cut short at the end
    \cup {png_signature \o CutEnd(GoodIhdr \o Concat(cs), k) :
            cs \in SeqsUpTo(CoreChunks, MaxCutChunks), k \in 1..MaxCut}
    \* a header and a chunk of any type over TypeBytes
    \cup {png_signature \o GoodIhdr \o EncodeChunk(t, <<>>) : t \in [1..4 -> TypeBytes]}
    \* every header payload, then image data
    \cup {png_signature \o EncodeChunk(IHDR_TYPE, p) \o GoodIdat \o Iend : p \in IhdrPayloads}
    \* a header, then image data of several blocks
    \cup {png_signature \o GoodIhdr \o EncodeChunk(IDAT_TYPE, z) \o Iend : z \in PngStreams}
    \* a 1x1 image of one stored pixel
    \cup {png_signature \o GoodIhdr \o EncodeChunk(IDAT_TYPE, OnePixelStream) \o Iend}
    \* a chunk whose length field promises more than the input holds
    \cup {png_signature \o GoodIhdr \o <<0, 1, 0, 0>> \o IDAT_TYPE \o GoodStream}

Init ==
    /\ input \in PngInputs
    /\ pc = "sig"
    /\ file = <<>>
    /\ chunks = <<>>
    /\ parsed = "pending"
    /\ idx = 0
    /\ image_width = 0
    /\ image_height = 0
    /\ image_data = <<>>
    /\ inflate_cur = <<>>
    /\ final_block = FALSE
    /\ blocks = <<>>
    /\ inflated = "pending"
    /\ result = "pending"
    /\ InitCursorIdle

Next ==
    \/ SigCheck
    \/ ReadChunkIter
    \/ ReadChunksReturn
    \/ HeaderCheck
    \/ CollectIter
    \/ CollectDone
    \/ ZlibHeader
    \/ BlockIter
    \/ BlockLoopExit
    \/ ReadPngReturn

Spec == Init /\ [][Next]_vars

----------------------------------------------------------------------------
(* The cursor readers as called by two decodes, each on a cursor of its    *)
(* own.  Every call is read_bytes or goes through it, and read_bytes       *)
(* stores to the static BITS_READ (line 252) and, when it succeeds, to the *)
(* caller's cursor (line 258).  Both decodes store the same value 0 to     *)
(* BITS_READ, which nothing reads, so 0 is the only value it can hold.     *)

Decodes == {1, 2}
\* The buffers: the readers branch on lengths alone, so one buffer of each
\* length, its bytes all different, stands for the rest.
Buffers == {[i \in 1..k |-> (i * 37) % 251] : k \in 0..MaxBuf}

\* The locations a call by decode d stores to, given the reader's result.
stores(d, r) == {<<"BITS_READ", 0>>} \cup (IF r.ok THEN {<<"file", d>>} ELSE {})

\* A call by decode d of reader op, asking for n bytes, that left result r.
Call(d, op, n, r) ==
    /\ cur' = [cur EXCEPT ![d] = r.rest]
    /\ ret' = [ret EXCEPT ![d] = [op |-> op, n |-> n, ok |-> r.ok, val |-> r.val]]
    /\ got' = [got EXCEPT ![d] = @ \o Take(cur[d], Len(cur[d]) - Len(r.rest))]
    /\ BITS_READ' = 0
    /\ writes' = writes \cup {<<loc, d>> : loc \in stores(d, r)}
    /\ UNCHANGED <<orig, pc, pngVars, inflateVars>>

CallReadBytes(d, n) == Call(d, "read_bytes", n, read_bytes(cur[d], n))
CallReadU8(d) == Call(d, "read_u8", 1, read_u8(cur[d]))
CallReadU16(d) == Call(d, "read_u16", 2, read_u16(cur[d]))
CallReadU32(d) == Call(d, "read_u32", 4, read_u32(cur[d]))

InitCursor ==
    /\ orig \in [Decodes -> Buffers]
    /\ cur = orig
    /\ got = [d \in Decodes |-> <<>>]
    /\ ret = [d \in Decodes |-> [op |-> "none", n |-> 0, ok |-> FALSE, val |-> 0]]
    /\ writes = {}
    /\ BITS_READ = 0
    /\ pc = "cursor"
    /\ image_data = <<>>
    /\ inflate_cur = <<>>
    /\ final_block = FALSE
    /\ blocks = <<>>
    /\ inflated = "pending"
    /\ InitIdle

NextCursor ==
    \E d \in Decodes :
        \/ \E n \in 0..MaxRead : CallReadBytes(d, n)
        \/ CallReadU8(d)
        \/ CallReadU16(d)
        \/ CallReadU32(d)

SpecCursor == InitCursor /\ [][NextCursor]_vars

----------------------------------------------------------------------------
(* The wire layout of a chunk sequence, read off the bytes alone:          *)
(* [length: 4][type: 4][data: length][trailer: 4], repeated to the end.    *)

RawLen(b) == ((b[1] * 256 + b[2]) * 256 + b[3]) * 256 + b[4]

\* b is a whole number of complete chunks
RECURSIVE WellFormedWire(_)
WellFormedWire(b) ==
    \/ b = <<>>
    \/ /\ Len(b) >= 12
       /\ Len(b) >= 12 + RawLen(b)
       /\ WellFormedWire(Drop(b, 12 + RawLen(b)))

\* the chunks of a well-formed b: type, data and encoded size of each
RECURSIVE WireSplit(_)
WireSplit(b) ==
    IF b = <<>> THEN <<>>
    ELSE <<[type |-> SubSeq(b, 5, 8), data |-> SubSeq(b, 9, 8 + RawLen(b)),
            size |-> 12 + RawLen(b)]>>
         \o WireSplit(Drop(b, 12 + RawLen(b)))

RECURSIVE SizeOf(_, _)
SizeOf(raw, k) == IF k = 0 THEN 0 ELSE raw[k].size + SizeOf(raw, k - 1)

Body == Drop(input, 8)
Framed == Len(input) >= 8 /\ WellFormedWire(Body)
Recognized == {IHDR_TYPE, IDAT_TYPE, PLTE_TYPE, IEND_TYPE}

----------------------------------------------------------------------------
(* The claims. *)

\* C1: whatever the input bytes, read_png ends with an image or an error
\* value and never with a panic.
C1_NoCrash == result # "panic"

\* C2: neither loop can run forever.  An iteration of the chunk loop that
\* goes round again leaves a shorter `file`, and one that does not has made
\* read_chunks return Some or None; an iteration of the block loop that goes
\* round again leaves a shorter cursor, and a step that leaves
\* decompress_image has made it return Some or None.
C2_LoopsTerminate ==
    [][/\ (pc = "chunks" /\ pc' = "chunks") => Len(file') < Len(file)
       /\ (pc = "chunks" /\ pc' # "chunks") => parsed' \in {"Some", "None"}
       /\ (pc = "block" /\ pc' = "block") => Len(inflate_cur') < Len(inflate_cur)
       /\ (pc \in {"zlib", "block"} /\ pc' \notin {"zlib", "block"})
            => inflated' \in {"Some", "None"}]_vars

\* C2 witness: a decode that went round the chunk loop three times and the
\* block loop twice, and ended.
C2_Witness == pc = "done" /\ Len(chunks) >= 3 /\ Len(blocks) >= 2

\* C3: decompress_image never returns Some after reading a stored block whose
\* NLEN is not the bitwise complement of its LEN.
C3_ForgedNlenRejected ==
    inflated = "Some" =>
        \A i \in 1..Len(blocks) : blocks[i].stored => blocks[i].nlen = 65535 - blocks[i].len

\* C4: decompress_image returns Some only after reading a block whose BFINAL
\* bit is 1.
C4_SuccessNeedsFinalBlock ==
    inflated = "Some" => \E i \in 1..Len(blocks) : blocks[i].bfinal = 1

\* C5: when the chunks up to an IEND decode successfully on their own, the
\* input with further well-formed chunks after that IEND decodes to the same
\* result from the same compressed stream.
C5_TrailingChunksIgnored ==
    (pc = "done" /\ Framed) =>
        LET raw == WireSplit(Body)
        IN  \A k \in 1..(Len(raw) - 1) :
                LET alone == read_png(Take(input, 8 + SizeOf(raw, k)))
                IN  (raw[k].type = IEND_TYPE /\ alone.result = "Some") =>
                        /\ result = "Some"
                        /\ image_width = alone.width
                        /\ image_height = alone.height
                        /\ image_data = alone.image_data

\* C6: read_chunks returns Some only when every chunk was there in full:
\* length, type, data and all 4 trailer bytes.
C6_TruncatedChunkRejected == parsed = "Some" => Framed

\* C7: no location is written by both decodes.
C7_NoSharedWrites ==
    \A w1 \in writes : \A w2 \in writes : w1[1] = w2[1] => w1[2] = w2[2]

\* C8: a chunk sequence with a PLTE chunk, or with an IHDR chunk after the
\* first, ends in None: whether counted in the chunks read_chunks returned or
\* in the chunks the input is framed into.
C8_HeaderRules ==
    pc = "done" =>
        /\ (\/ \E i \in 1..Len(chunks) : chunks[i].kind = "PLTE"
            \/ \E i \in 1..Len(chunks) : \E j \in (i + 1)..Len(chunks) :
                   chunks[i].kind = "IHDR" /\ chunks[j].kind = "IHDR")
           => result = "None"
        /\ Framed =>
             LET raw == WireSplit(Body)
             IN  (\/ \E i \in 1..Len(raw) : raw[i].type = PLTE_TYPE
                  \/ \E i \in 1..Len(raw) : \E j \in (i + 1)..Len(raw) :
                         raw[i].type = IHDR_TYPE /\ raw[j].type = IHDR_TYPE)
                 => result = "None"

\* C8 witness: a header, image data, then a second header and a palette; the
\* loop of read_png stopped at the second header.
C8_Witness ==
    /\ pc = "done" /\ result = "None" /\ Len(chunks) = 4 /\ idx = 3
    /\ chunks[1].kind = "IHDR" /\ chunks[2].kind = "IDAT"
    /\ chunks[3].kind = "IHDR" /\ chunks[4].kind = "PLTE"

\* What read_chunks did with chunk k of a framed input: "accepted" as an
\* Ancillary chunk, "failed" there, or "unreached" (it failed before).
Fate(k) ==
    IF Len(chunks) >= k THEN (IF chunks[k].kind = "Ancillary" THEN "accepted" ELSE "other")
    ELSE IF Len(chunks) = k - 1 /\ parsed = "None" THEN "failed"
    ELSE "unreached"

\* C9 as stated: a chunk of unrecognized type is accepted as Ancillary
\* whenever bit 0x20 of its first type byte is set, whatever the other three
\* bytes, and fails read_chunks whenever the bit is clear.
C9_AsStated ==
    (parsed # "pending" /\ Framed) =>
        LET raw == WireSplit(Body)
        IN  \A k \in 1..Len(raw) :
                (raw[k].type \notin Recognized /\ Fate(k) # "unreached") =>
                    Fate(k) = (IF (raw[k].type[1] \div 32) % 2 = 1
                               THEN "accepted" ELSE "failed")

\* C9 amended: a chunk of unrecognized type is accepted as Ancillary whenever
\* its four type bytes are well-formed UTF-8 and bit 0x20 of the first is set,
\* and fails read_chunks otherwise.
C9_Utf8AndBit ==
    (parsed # "pending" /\ Framed) =>
        LET raw == WireSplit(Body)
        IN  \A k \in 1..Len(raw) :
                (raw[k].type \notin Recognized /\ Fate(k) # "unreached") =>
                    Fate(k) = (IF from_utf8_ok(raw[k].type)
                                  /\ (raw[k].type[1] \div 32) % 2 = 1
                               THEN "accepted" ELSE "failed")

\* C9 witness: read_chunks returned with a second chunk accepted as Ancillary
\* whose type is not ASCII.
C9_Witness ==
    /\ parsed = "Some" /\ Framed /\ Len(chunks) = 2
    /\ chunks[2].kind = "Ancillary"
    /\ \E i \in 1..4 : WireSplit(Body)[2].type[i] >= 128

\* C10: decompress_image never returns Some after a stored block whose LEN is
\* more than the bytes left after its NLEN.
C10_ShortStoredBlockRejected ==
    inflated = "Some" =>
        \A i \in 1..Len(blocks) : blocks[i].stored => blocks[i].len <= blocks[i].avail

\* C11: an input of at least 8 bytes that differs from the signature at one
\* of the 8 positions alone ends in None at the signature check, before
\* read_chunks is called.
C11_SignatureChecked ==
    \A i \in 1..8 :
        (/\ pc # "sig"
         /\ Len(input) >= 8
         /\ input[i] # png_signature[i]
         /\ \A j \in (1..8) \ {i} : input[j] = png_signature[j])
        => /\ pc = "done"
           /\ result = "None"
           /\ parsed = "pending"
           /\ chunks = <<>>

\* C11 witness: a whole file whose eighth byte alone is wrong, rejected.
C11_Witness ==
    /\ pc = "done" /\ result = "None" /\ Len(input) > 8
    /\ input[8] # png_signature[8]
    /\ Take(input, 7) = Take(png_signature, 7)

\* C12: a chunk sequence whose first chunk is not IHDR ends in None, and a
\* decode that ends in Some had exactly one IHDR, the first chunk: whether
\* counted in the chunks read_chunks returned or in the chunks the input is
\* framed into.
C12_FirstChunkIsIhdr ==
    /\ (pc = "done" /\ parsed = "Some" /\ Len(chunks) >= 1
        /\ chunks[1].kind \in {"IDAT", "PLTE", "IEND", "Ancillary"})
       => result = "None"
    /\ (pc = "done" /\ Framed /\ Len(Body) > 0 /\ WireSplit(Body)[1].type # IHDR_TYPE)
       => result = "None"
    /\ result = "Some"
       => /\ Len(chunks) >= 1
          /\ \A i \in 1..Len(chunks) : (chunks[i].kind = "IHDR") = (i = 1)
    /\ (result = "Some" /\ Framed)
       => LET raw == WireSplit(Body)
          IN  \A i \in 1..Len(raw) : (raw[i].type = IHDR_TYPE) = (i = 1)

\* C12 witness: read_chunks returned image data first and a header second,
\* and read_png ended in None.
C12_Witness ==
    /\ pc = "done" /\ result = "None" /\ parsed = "Some" /\ Len(chunks) >= 2
    /\ chunks[1].kind = "IDAT" /\ chunks[2].kind = "IHDR"

\* C13: a header with bit_depth other than 8, color_type other than 2, or a
\* compression, filter or interlace method other than 0 ends in None; a
\* decode that ends in Some had those five values, in the PNGChunk and in the
\* bytes 9 to 13 of the first chunk's payload.
C13_SupportedSubset ==
    /\ (pc = "done" /\ parsed = "Some" /\ Len(chunks) >= 1 /\ chunks[1].kind = "IHDR"
        /\ <<chunks[1].bit_depth, chunks[1].color_type, chunks[1].compression_method,
             chunks[1].filter_method, chunks[1].interlace_method>> # <<8, 2, 0, 0, 0>>)
       => result = "None"
    /\ (result = "Some" /\ Framed)
       => SubSeq(WireSplit(Body)[1].data, 9, 13) = <<8, 2, 0, 0, 0>>

\* C13 witness: a header wrong in its interlace method alone, rejected.
C13_Witness ==
    /\ pc = "done" /\ result = "None" /\ parsed = "Some" /\ Len(chunks) = 3
    /\ chunks[1].kind = "IHDR" /\ chunks[1].interlace_method = 1
    /\ <<chunks[1].bit_depth, chunks[1].color_type, chunks[1].compression_method,
         chunks[1].filter_method>> = <<8, 2, 0, 0>>
    /\ chunks[2].kind = "IDAT"

\* the payloads of the IDAT chunks of a framed input, in order
RECURSIVE IdatBytes(_)
IdatBytes(raw) ==
    IF raw = <<>> THEN <<>>
    ELSE (IF Head(raw).type = IDAT_TYPE THEN Head(raw).data ELSE <<>>)
         \o IdatBytes(Tail(raw))

\* the payloads of the IDAT chunks read_chunks returned, in order
RECURSIVE IdatData(_)
IdatData(cs) ==
    IF cs = <<>> THEN <<>>
    ELSE (IF Head(cs).kind = "IDAT" THEN Head(cs).data ELSE <<>>) \o IdatData(Tail(cs))

DecompressCalled == pc \in {"zlib", "block", "ret"} \/ inflated # "pending"

\* C14: whenever decompress_image is called, its argument is the payloads of
\* the IDAT chunks joined in input order and nothing else.
C14_IdatConcatenated ==
    DecompressCalled =>
        /\ image_data = IdatData(chunks)
        /\ Framed => image_data = IdatBytes(WireSplit(Body))
        /\ pc = "zlib" => inflate_cur = image_data

\* C14 witness: two IDAT chunks with different payloads, an ancillary chunk
\* between them, and a stream that decompress_image accepted.
C14_Witness ==
    /\ pc = "ret" /\ inflated = "Some" /\ Len(chunks) = 4
    /\ chunks[2].kind = "IDAT" /\ chunks[3].kind = "Ancillary" /\ chunks[4].kind = "IDAT"
    /\ chunks[2].data # chunks[4].data
    /\ Len(chunks[2].data) > 0 /\ Len(chunks[4].data) > 0

\* C15: read_chunks returns Some only when every IHDR chunk has a payload of
\* exactly 13 bytes.
C15_IhdrPayloadIs13 ==
    (parsed = "Some" /\ Framed) =>
        \A i \in 1..Len(WireSplit(Body)) :
            WireSplit(Body)[i].type = IHDR_TYPE => Len(WireSplit(Body)[i].data) = 13

\* C16: a stream of fewer than 2 bytes, or whose CMF low nibble is not 8, or
\* whose FLG has bit 5 set, makes decompress_image return None before any
\* block is read; and the outcome is the one the same stream has with the top
\* two bits of FLG cleared.
C16_ZlibHeaderChecked ==
    /\ (pc # "zlib"
        /\ (\/ Len(image_data) < 2
            \/ image_data[1] % 16 # 8
            \/ (image_data[2] \div 32) % 2 = 1))
       => (inflated = "None" /\ blocks = <<>>)
    /\ (inflated # "pending" /\ Len(image_data) >= 2)
       => inflated = decompress_image([image_data EXCEPT ![2] = @ % 64])

\* C16 witness: a stream accepted with both top bits of FLG set.
C16_Witness == inflated = "Some" /\ image_data[2] = 192 /\ Len(blocks) >= 1

\* C17: a decode that ends in Some returns an image with the header's width
\* and height and width*height*3 pixel bytes; one that does not returns no
\* image.
C17_CompleteImage ==
    /\ result = "Some"
       => /\ returned.width = chunks[1].width
          /\ returned.height = chunks[1].height
          /\ "pixels" \in DOMAIN returned
          /\ Len(returned.pixels) = returned.width * returned.height * 3
    /\ result # "Some" => returned = <<>>

\* C18: a block whose BTYPE is 3 (binary 11) makes decompress_image return
\* None, with BFINAL 0 or 1 and whatever bytes follow it: it is the last block
\* read, and a stream whose first block header has BTYPE 3 fails after that
\* one block.
C18_ReservedBlockFails ==
    /\ \A i \in 1..Len(blocks) :
          blocks[i].btype = 3 => (i = Len(blocks) /\ inflated = "None")
    /\ (/\ pc \notin {"zlib", "block"}
        /\ Len(image_data) >= 3
        /\ image_data[1] % 16 = 8
        /\ (image_data[2] \div 32) % 2 = 0
        /\ (image_data[3] \div 2) % 4 = 3)
       => (inflated = "None" /\ Len(blocks) = 1)

\* a reserved block with BFINAL set, read after a stored block, bytes after it
C18_Witness ==
    /\ Len(blocks) = 2
    /\ blocks[2].btype = 3
    /\ blocks[2].bfinal = 1
    /\ inflate_cur # <<>>
    /\ inflated = "None"

\* C19: in a stored block LEN is its two bytes read low byte first, and after
\* the block the cursor stands LEN bytes past the NLEN field.  Stated for the
\* first block of a stream, whose header is byte 3, LEN bytes 4 and 5, NLEN
\* bytes 6 and 7.
C19_LenLowByteFirst ==
    (Len(blocks) = 1 /\ blocks[1].stored)
    => /\ blocks[1].len = image_data[4] + 256 * image_data[5]
       /\ inflate_cur = Drop(image_data, 7 + image_data[4] + 256 * image_data[5])

\* The bytes a reader's successful result stands for: read_bytes returns them,
\* read_u8, read_u16 and read_u32 return their big-endian value.
ReturnedBytes(r) ==
    IF r.op = "read_bytes" THEN r.val
    ELSE IF r.op = "read_u8" THEN <<r.val>>
    ELSE IF r.op = "read_u16" THEN <<r.val \div 256, r.val % 256>>
    ELSE <<r.val \div 16777216, (r.val \div 65536) % 256,
           (r.val \div 256) % 256, r.val % 256>>

\* A call by decode d asking for n bytes: it fails exactly when fewer than n
\* bytes remain and then leaves the cursor as it was, else it returns the first
\* n remaining bytes and the cursor advances by exactly n.
ReadStep(d) ==
    LET r == ret'[d]
    IN  /\ r.ok = (Len(cur[d]) >= r.n)
        /\ ~r.ok => (cur'[d] = cur[d] /\ got'[d] = got[d])
        /\ r.ok => /\ ReturnedBytes(r) = Take(cur[d], r.n)
                   /\ cur'[d] = Drop(cur[d], r.n)
                   /\ Len(cur'[d]) = Len(cur[d]) - r.n
                   /\ got'[d] = got[d] \o ReturnedBytes(r)
        /\ Len(cur'[d]) <= Len(cur[d])

\* The step is a call by decode d: its last-call record or its cursor changes.
Called(d) ==
    \/ ret'[d].op # ret[d].op
    \/ ret'[d].n # ret[d].n
    \/ ret'[d].ok # ret[d].ok
    \/ cur'[d] # cur[d]

\* Each decode's last call without the value it returned.
LastCalls == [d \in Decodes |-> <<ret[d].op, ret[d].n, ret[d].ok>>]

\* C20: read_bytes either fails and leaves the cursor unchanged (fewer than n
\* bytes remain) or returns the first n remaining bytes and advances the cursor
\* by exactly n; after any sequence of read_u8/read_u16/read_u32/read_bytes
\* calls the bytes returned so far followed by the remaining cursor are the
\* original input, and the remaining length never grows.
C20_CursorAdvance ==
    /\ [](pc = "cursor" => \A d \in Decodes : got[d] \o cur[d] = orig[d])
    /\ [][pc = "cursor" =>
            \A d \in Decodes :
                Called(d) => ReadStep(d)]_<<pc, orig, cur, got, LastCalls>>

\* one decode has made several reads, the last a successful read_bytes that
\* left bytes behind; the other's last read_bytes asked for more than remained
C20_Witness ==
    /\ pc = "cursor"
    /\ ret[1].op = "read_bytes" /\ ret[1].ok /\ ret[1].n >= 1
    /\ Len(got[1]) > ret[1].n /\ cur[1] # <<>>
    /\ ret[2].op = "read_bytes" /\ ~ret[2].ok
    /\ cur[2] # <<>> /\ got[2] # <<>>

====
